---- MODULE Spec2Model ----
(***************************************************************************)
(* VirtualBox-Manager (src/app.py): the curses front-end VBoxManager as a   *)
(* state machine.  One action per blocking read of the program (getch or   *)
(* getstr): the action reads the input and runs the handler up to the next  *)
(* blocking read, every subprocess.run on the way included.                 *)
(*                                                                         *)
(* The environment is what the program cannot control: the key returned by  *)
(* getch, the text returned by getstr, the height returned by getmaxyx, the *)
(* listing printed by "VBoxManage list vms", the lines printed by           *)
(* "VBoxManage showvminfo", the returncode of every subprocess.run, and     *)
(* whether there is a VBoxManage at all (fixed for a session).              *)
(*                                                                         *)
(* The screen is stdscr, the parameter of VBoxManager.main.  It is taken    *)
(* as a display surface of any height on which clear, addstr and refresh    *)
(* succeed; what is drawn is part of the state only where a property reads  *)
(* it (the report of the wizard on rows 18-19).                             *)
(***************************************************************************)
EXTENDS Integers, Sequences, FiniteSets, TLC

\* ------------------------------------------------------------------ bounds
\* The longest listing "VBoxManage list vms" returns.
MaxVMs == 4
\* The most lines "VBoxManage showvminfo" prints.
MaxLines == 4
\* The tallest terminal getmaxyx reports.
MaxHeight == 7

\* --------------------------------------------------------------- key codes
KEY_UP == 259
KEY_DOWN == 258
\* ord('\n')
KEY_ENTER == 10
\* ord('q')
KEY_Q == 113
\* Ctrl+S
KEY_SKIP == 19
\* The keys getch returns: the five the program compares against and one
\* other key (ord('a')) standing for every key it does not.
Keys == {KEY_UP, KEY_DOWN, KEY_ENTER, KEY_Q, KEY_SKIP, 97}

\* ------------------------------------------------------------- environment
\* The VMs that may be registered, in the order VBoxManage lists them.
Registry == SubSeq(<<"alpha", "beta", "gamma", "delta", "epsilon">>, 1, MaxVMs)

\* The parsed output of "VBoxManage list vms": the names (vm[0] of each
\* (name, uuid) pair; the uuid is never read) of the VMs registered at the
\* time of the call, any of them but no more than MaxVMs.
Listed(S) == SelectSeq(Registry, LAMBDA name : name \in S)
Listings ==
    {Listed(S) : S \in {T \in SUBSET {Registry[i] : i \in 1..Len(Registry)} :
                          Cardinality(T) <= MaxVMs}}

\* What subprocess.run does: returns with returncode 0 ("ok"), returns with a
\* non-zero returncode ("fail"), or raises FileNotFoundError ("missing")
\* when there is no VBoxManage to run.
OutcomesWhen(present) == IF present THEN {"ok", "fail"} ELSE {"missing"}

\* The lines of "VBoxManage showvminfo": line i is named by its position,
\* so a slice that drops, repeats or reorders a line differs from the original.
InfoTexts == {[i \in 1..n |-> i] : n \in 0..MaxLines}

Heights == 1..MaxHeight

\* What getstr returns in the wizard.
Texts == {"", "vm1"}

VARIABLES
    installed,     \* whether VBoxManage is on this machine (the environment)
    pc,            \* the blocking read the program waits at, or "exited"
    key,           \* key: the value of the latest `key = self.screen.getch()`
    current_row,   \* self.current_row
    vms,           \* self.vms
    vm_name,       \* vm_actions' parameter vm_name ("" outside vm_actions)
    info_lines,    \* info_lines of the viewer
    height,        \* getmaxyx()[0] as read on entering the viewer
    page_size,     \* page_size
    current_page,  \* current_page
    total_pages,   \* total_pages
    answers,       \* create_vm: the values of the fields resolved so far (of
                   \* the run q has just ended, until main handles a key)
    typed,         \* get_user_input: what getstr last returned in this wizard
    calls,         \* the subprocess.run calls of the last handler, in order
    shown,         \* create_vm: what rows 18-19 show
    error          \* the exception that left VBoxManager.main, or "none"

vars == <<installed, pc, key, current_row, vms, vm_name, info_lines, height, page_size,
          current_page, total_pages, answers, typed, calls, shown,
          error>>

\* ------------------------------------------------------- pure computations
Max(a, b) == IF a >= b THEN a ELSE b
Min(a, b) == IF a <= b THEN a ELSE b

\* Python's a // b (floor division) for b # 0.
FloorDiv(a, b) == IF b > 0 THEN a \div b ELSE (0 - a) \div (0 - b)

\* Python's s[start:stop] on a list: a negative index counts from the end,
\* both ends are clamped to the list, an empty range gives [].
SliceIndex(i, len) == IF i < 0 THEN Max(i + len, 0) ELSE Min(i, len)
Slice(s, start, stop) ==
    LET lo == SliceIndex(start, Len(s))
        hi == SliceIndex(stop, Len(s))
    IN  [k \in 1..(hi - lo) |-> s[lo + k]]

\* main: options = ["Create New VM"] + ["Select VM: <name>", ...] + ["Quit"]
Options(v) ==
    <<"Create New VM">> \o [i \in 1..Len(v) |-> "Select VM: " \o v[i]] \o <<"Quit">>

\* vm_actions: the four actions of a VM
Actions(name) ==
    <<"Start VM: " \o name, "Show VM Info: " \o name, "Delete VM: " \o name, "Back">>

\* The first two branches of a menu loop's if-chain (main and vm_actions):
\* whether the key moves the selection in a menu of n items, and to where.
RowAfterWrap(k, row, n) ==
    IF k = KEY_UP THEN (IF row > 0 THEN row - 1 ELSE n - 1)
    ELSE IF k = KEY_DOWN THEN (IF row < n - 1 THEN row + 1 ELSE 0)
    ELSE row
RowAfter(k, row, n) ==
    IF k = KEY_UP /\ row > 0 THEN row - 1
    ELSE IF k = KEY_DOWN /\ row < n - 1 THEN row + 1
    ELSE row
MenuMoves(k, row, n) == RowAfter(k, row, n) # row

\* main: vm_name = self.vms[self.current_row-1][0], the name of the VM on
\* row `row` of the menu (v is indexed from 1 here, self.vms from 0).
SelectedVMNoOffset(v, row) == v[IF row < Len(v) THEN row + 1 ELSE row]
SelectedVM(v, row) == v[row]

\* Mutant of TopChoice: the Quit row taken one too far.
TopChoiceOffByOne(row, n) ==
    IF row = 0 THEN "create"
    ELSE IF row = n THEN "quit"
    ELSE "select"

\* main: what Enter does on row `row` of a menu of n options.
TopChoiceCreateLast(row, n) ==
    IF row = n - 1 THEN "create"
    ELSE IF row = 0 THEN "quit"
    ELSE "select"
TopChoice(row, n) ==
    IF row = 0 THEN "create"
    ELSE IF row = n - 1 THEN "quit"
    ELSE "select"

\* vm_actions: what Enter does on row `row`; no branch is taken for a row
\* that is none of the four.
ActionChoiceOneBased(row) ==
    IF row = 1 THEN "start"
    ELSE IF row = 2 THEN "info"
    ELSE IF row = 3 THEN "delete"
    ELSE IF row = 4 THEN "back"
    ELSE "nothing"
ActionChoiceElseBack(row) ==
    IF row = 0 THEN "start"
    ELSE IF row = 1 THEN "info"
    ELSE IF row = 2 THEN "delete"
    ELSE "back"
ActionChoice(row) ==
    IF row = 0 THEN "start"
    ELSE IF row = 1 THEN "info"
    ELSE IF row = 2 THEN "delete"
    ELSE IF row = 3 THEN "back"
    ELSE "nothing"

\* vm_actions: page_size = self.screen.getmaxyx()[0] - 4
\* ("Leave room for header/footer")
HeaderFooterReserve == 4
PageSize(h) == h - HeaderFooterReserve

\* vm_actions: total_pages = (len(info_lines) + page_size - 1) // page_size
TotalPages(len, size) == FloorDiv(len + size - 1, size)

\* vm_actions: the lines page `page` shows,
\* info_lines[start_idx:start_idx + page_size] with start_idx = page * page_size
PageLines(lines, page, size) == Slice(lines, page * size, page * size + size)

\* vm_actions: the viewer's if-chain on Up and Down
PageAfterNoUpperLimit(k, page, total) ==
    IF k = KEY_UP /\ page > 0 THEN page - 1
    ELSE IF k = KEY_DOWN /\ page < total THEN page + 1
    ELSE page
PageAfter(k, page, total) ==
    IF k = KEY_UP /\ page > 0 THEN page - 1
    ELSE IF k = KEY_DOWN /\ page < total - 1 THEN page + 1
    ELSE page

\* create_vm: the defaults, in the order the fields are asked:
\* name, os, memory, cpus, vram, hdd
Defaults == <<"NewVM", "Ubuntu_64", "1024", "2", "128", "10240">>
NumFields == Len(Defaults)

\* get_user_input, called for field f: the value is the text getstr returns,
\* as it is (the key that opened the entry was consumed by create_vm's getch
\* and is no part of it).
GetUserInput(f, text) == text

\* Mutant of FieldChoice: the test for q is missing.
FieldChoiceNoQuit(k) ==
    IF k = KEY_SKIP THEN "default"
    ELSE "input"

\* create_vm: the branch taken on the key read at the start of a field:
\* q returns, Ctrl+S takes the default, any other key opens get_user_input.
FieldChoice(k) ==
    IF k = KEY_Q THEN "return"
    ELSE IF k = KEY_SKIP THEN "default"
    ELSE "input"

\* Mutant of SkipValue: the video memory takes the default of the memory.
SkipValueWrongKey(f) == IF f = 5 THEN Defaults[3] ELSE Defaults[f]

\* create_vm: the value Ctrl+S gives field f.
SkipValue(f) == Defaults[f]

\* create_vm: the five commands, from a = <<vm_name, os_type, memory, cpus,
\* vram, hdd>>
Commands(a) ==
    << <<"VBoxManage", "createvm", "--name", a[1], "--ostype", a[2], "--register">>,
       <<"VBoxManage", "modifyvm", a[1], "--memory", a[3], "--cpus", a[4],
         "--vram", a[5]>>,
       <<"VBoxManage", "createhd", "--filename", a[1] \o ".vdi", "--size", a[6]>>,
       <<"VBoxManage", "storagectl", a[1], "--name", "SATA Controller",
         "--add", "sata">>,
       <<"VBoxManage", "storageattach", a[1], "--storagectl", "SATA Controller",
         "--port", "0", "--device", "0", "--type", "hdd", "--medium",
         a[1] \o ".vdi">> >>

\* One subprocess.run: the function that made it, its argv and its outcome.
Call(by, cmd, rc) == [by |-> by, cmd |-> cmd, rc |-> rc]

\* Mutant of RunFrom: a non-zero returncode does not end the loop.
RunAll(cmds, outs, i) ==
    [j \in 1..(Len(cmds) - i + 1) |->
        Call("create_vm", cmds[i + j - 1], outs[i + j - 1])]

\* create_vm: for cmd in commands: run it; a non-zero returncode raises
\* Exception, a missing VBoxManage raises FileNotFoundError: either ends
\* the loop.  The calls made from command i on, outs[i] the outcome of
\* command i.
RECURSIVE RunFrom(_, _, _)
RunFrom(cmds, outs, i) ==
    IF i > Len(cmds) THEN <<>>
    ELSE IF outs[i] # "ok" THEN <<Call("create_vm", cmds[i], outs[i])>>
    ELSE <<Call("create_vm", cmds[i], outs[i])>> \o RunFrom(cmds, outs, i + 1)

\* create_vm: what rows 18-19 show after the loop over `made`, the calls it
\* made: the success line, or "Error: " and the text of the exception (the
\* command and its stderr for a non-zero returncode, the OS error text for a
\* missing VBoxManage), and the request for a key.
NothingShown == [kind |-> "none", cmd |-> <<>>]
ShownAlwaysCreated(made) == [kind |-> "created", cmd |-> <<>>]
ShownAfter(made) ==
    LET last == made[Len(made)]
    IN  IF last.rc = "ok" THEN [kind |-> "created", cmd |-> <<>>]
        ELSE IF last.rc = "fail" THEN [kind |-> "command_error", cmd |-> last.cmd]
        ELSE [kind |-> "os_error", cmd |-> <<>>]

\* get_vms: the listing parsed from the output, [] when VBoxManage is missing
\* (FileNotFoundError is caught); the returncode is not read.
ListOutcomesWhen(present) ==
    IF present THEN {[rc |-> "ok", listing |-> l] : l \in Listings}
    ELSE {[rc |-> "missing", listing |-> <<>>]}
ListOutcomes == ListOutcomesWhen(installed)
Outcomes == OutcomesWhen(installed)
GetVms(lo) == IF lo.rc = "missing" THEN <<>> ELSE lo.listing
ListCall(lo) == Call("get_vms", <<"VBoxManage", "list", "vms">>, lo.rc)

\* ------------------------------------------------------------------- state
viewerVars == <<info_lines, height, page_size, current_page, total_pages>>
wizardVars == <<answers, typed, shown>>

\* VBoxManager.__init__ and main up to the splash screen's getch.
Init ==
    /\ installed \in BOOLEAN
    /\ pc = "splash"
    /\ key = 0
    /\ current_row = 0
    /\ vms = <<>>
    /\ vm_name = ""
    /\ info_lines = <<>>
    /\ height = 0
    /\ page_size = 0
    /\ current_page = 0
    /\ total_pages = 0
    /\ answers = <<>>
    /\ typed = ""
    /\ calls = <<>>
    /\ shown = NothingShown
    /\ error = "none"

\* main: the top of the while loop, after `made` calls of the handler that led
\* here: self.vms = self.get_vms(), the menu is drawn, getch waits.
TopLoop(made, lo) ==
    /\ vms' = GetVms(lo)
    /\ calls' = made \o <<ListCall(lo)>>
    /\ pc' = "top"
    /\ error' = error

\* main: break, or q: the loop ends, curses.wrapper returns.
Quit ==
    /\ pc' = "exited"
    /\ error' = error
    /\ calls' = <<>>

\* An exception no handler of VBoxManager catches: it leaves main, and
\* module-level main() prints it and returns.
Raise(exc, made) ==
    /\ pc' = "exited"
    /\ error' = exc
    /\ calls' = made

\* main: self.screen.getch() of the splash screen (the key is not kept).
Splash ==
    /\ UNCHANGED installed
    /\ pc = "splash"
    /\ \E lo \in ListOutcomes : TopLoop(<<>>, lo)
    /\ UNCHANGED <<key, current_row, vm_name, viewerVars, wizardVars>>

\* main: key = self.screen.getch() and the if-chain on it.
TopMenuKey ==
    /\ UNCHANGED installed
    /\ pc = "top"
    /\ \E k \in Keys :
         LET n == Len(Options(vms)) IN
         /\ key' = k
         /\ answers' = <<>>
         /\ IF MenuMoves(k, current_row, n)
              THEN /\ current_row' = RowAfter(k, current_row, n)
                   /\ \E lo \in ListOutcomes : TopLoop(<<>>, lo)
                   /\ UNCHANGED <<vm_name, typed, shown>>
            ELSE IF k = KEY_ENTER
              THEN CASE TopChoice(current_row, n) = "create" ->
                          \* self.create_vm(): up to the first field's getch
                          /\ pc' = "wiz_key"
                          /\ shown' = NothingShown
                          /\ calls' = <<>>
                          /\ UNCHANGED <<current_row, vms, vm_name, typed, error>>
                     [] TopChoice(current_row, n) = "quit" ->
                          /\ Quit
                          /\ UNCHANGED <<current_row, vms, vm_name, typed, shown>>
                     [] TopChoice(current_row, n) = "select" ->
                          \* vm_name = self.vms[self.current_row-1][0]
                          IF current_row - 1 >= Len(vms)
                            THEN /\ Raise("IndexError", <<>>)
                                 /\ UNCHANGED <<current_row, vms, vm_name, typed, shown>>
                            ELSE /\ vm_name' = SelectedVM(vms, current_row)
                                 /\ pc' = "actions"
                                 /\ calls' = <<>>
                                 /\ UNCHANGED <<current_row, vms, typed, shown, error>>
            ELSE IF k = KEY_Q
              THEN /\ Quit
                   /\ UNCHANGED <<current_row, vms, vm_name, typed, shown>>
            ELSE /\ \E lo \in ListOutcomes : TopLoop(<<>>, lo)
                 /\ UNCHANGED <<current_row, vm_name, typed, shown>>
    /\ UNCHANGED viewerVars

\* vm_actions: break (Delete, Back, q) after `made` calls: back in main's loop.
ActionsBreak(made) ==
    /\ \E lo \in ListOutcomes : TopLoop(made, lo)
    /\ vm_name' = ""
    /\ UNCHANGED <<current_row, viewerVars>>

\* vm_actions: the loop goes round after `made` calls: the menu is drawn and
\* getch waits again.
ActionsStay(made) ==
    /\ pc' = "actions"
    /\ calls' = made
    /\ UNCHANGED <<current_row, vms, vm_name, viewerVars, error>>

\* vm_actions: an exception raised in the loop; vm_actions has no handler.
ActionsRaise(exc, made) ==
    /\ Raise(exc, made)
    /\ UNCHANGED <<current_row, vms, vm_name>>

\* vm_actions, Enter on "Start VM": subprocess.run(['VBoxManage', 'startvm',
\* vm_name]); the returncode is not read.
StartVM ==
    \E o \in Outcomes :
      LET run == Call("vm_actions", <<"VBoxManage", "startvm", vm_name>>, o) IN
      IF o = "missing"
        THEN ActionsRaise("FileNotFoundError", <<run>>) /\ UNCHANGED viewerVars
        ELSE ActionsStay(<<run>>)

\* vm_actions, Enter on "Delete VM": subprocess.run(['VBoxManage',
\* 'unregistervm', vm_name, '--delete']) and break.
DeleteVM ==
    \E o \in Outcomes :
      LET run == Call("vm_actions",
                      <<"VBoxManage", "unregistervm", vm_name, "--delete">>, o) IN
      IF o = "missing"
        THEN ActionsRaise("FileNotFoundError", <<run>>) /\ UNCHANGED viewerVars
        ELSE ActionsBreak(<<run>>)

\* vm_actions, Enter on "Show VM Info": showvminfo prints txt, getmaxyx reports
\* the height h, the paging is initialised and the viewer's getch waits.
ShowInfo ==
    \E o \in Outcomes, txt \in InfoTexts, h \in Heights :
      LET run == Call("vm_actions", <<"VBoxManage", "showvminfo", vm_name>>, o) IN
      IF o = "missing"
        THEN ActionsRaise("FileNotFoundError", <<run>>) /\ UNCHANGED viewerVars
      ELSE IF PageSize(h) = 0
        THEN \* total_pages = (...) // page_size divides by zero
             /\ ActionsRaise("ZeroDivisionError", <<run>>)
             /\ info_lines' = txt
             /\ height' = h
             /\ page_size' = PageSize(h)
             /\ current_page' = 0
             /\ UNCHANGED total_pages
      ELSE /\ info_lines' = txt
           /\ height' = h
           /\ page_size' = PageSize(h)
           /\ current_page' = 0
           /\ total_pages' = TotalPages(Len(txt), PageSize(h))
           /\ pc' = "viewer"
           /\ calls' = <<run>>
           /\ UNCHANGED <<current_row, vms, vm_name, error>>

\* vm_actions: key = self.screen.getch() of the actions menu and the if-chain
\* on it.
ActionsKey ==
    /\ UNCHANGED installed
    /\ pc = "actions"
    /\ \E k \in Keys :
         LET n == Len(Actions(vm_name))
             choice == ActionChoice(current_row)
         IN
         /\ IF MenuMoves(k, current_row, n)
              THEN /\ current_row' = RowAfter(k, current_row, n)
                   /\ pc' = "actions"
                   /\ calls' = <<>>
                   /\ UNCHANGED <<vms, vm_name, viewerVars, error>>
            ELSE IF k = KEY_ENTER
              THEN CASE choice = "start" -> StartVM
                     [] choice = "info" -> ShowInfo
                     [] choice = "delete" -> DeleteVM
                     [] choice = "back" -> ActionsBreak(<<>>)
                     [] choice = "nothing" -> ActionsStay(<<>>)
            ELSE IF k = KEY_Q
              THEN ActionsBreak(<<>>)
            ELSE ActionsStay(<<>>)
         /\ key' = k
    /\ UNCHANGED wizardVars

\* vm_actions: key = self.screen.getch() of the viewer and the if-chain on it;
\* q breaks the inner loop, and the actions menu is drawn and read again.
ViewerKey ==
    /\ UNCHANGED installed
    /\ pc = "viewer"
    /\ \E k \in Keys :
         /\ key' = k
         /\ IF k = KEY_Q
              THEN /\ pc' = "actions"
                   /\ info_lines' = <<>>
                   /\ height' = 0
                   /\ page_size' = 0
                   /\ current_page' = 0
                   /\ total_pages' = 0
              ELSE /\ current_page' = PageAfter(k, current_page, total_pages)
                   /\ pc' = "viewer"
                   /\ UNCHANGED <<info_lines, height, page_size, total_pages>>
    /\ calls' = <<>>
    /\ UNCHANGED <<current_row, vms, vm_name, wizardVars, error>>

\* create_vm, after field f got its value and the answers are a: the next
\* field's getch, or after the last field the loop over the five commands, the
\* report on rows 18-19 and the getch that waits for any key.
FieldDone(f, a) ==
    /\ answers' = a
    /\ IF f = NumFields
         THEN \E outs \in [1..Len(Commands(a)) -> Outcomes] :
                LET made == RunFrom(Commands(a), outs, 1) IN
                /\ calls' = made
                /\ shown' = ShownAfter(made)
                /\ pc' = "wiz_pause"
         ELSE /\ pc' = "wiz_key"
              /\ calls' = <<>>
              /\ UNCHANGED shown
    /\ UNCHANGED <<vms, error>>

\* create_vm: key = self.screen.getch() at the start of field Len(answers)+1.
WizardKey ==
    /\ UNCHANGED installed
    /\ pc = "wiz_key"
    /\ \E k \in Keys :
         LET f == Len(answers) + 1 IN
         /\ IF FieldChoice(k) = "return"
              THEN \* return: back in main's loop
                   /\ \E lo \in ListOutcomes : TopLoop(<<>>, lo)
                   /\ typed' = ""
                   /\ UNCHANGED <<answers, shown>>
            ELSE IF FieldChoice(k) = "default"
              THEN /\ FieldDone(f, Append(answers, SkipValue(f)))
                   /\ UNCHANGED typed
            ELSE \* get_user_input: up to getstr
                 /\ pc' = "wiz_text"
                 /\ calls' = <<>>
                 /\ UNCHANGED <<vms, answers, typed, shown, error>>
         /\ key' = k
    /\ UNCHANGED <<current_row, vm_name, viewerVars>>

\* get_user_input: self.screen.getstr(...) returns the text typed.
WizardText ==
    /\ UNCHANGED installed
    /\ pc = "wiz_text"
    /\ \E text \in Texts :
         LET f == Len(answers) + 1 IN
         /\ typed' = text
         /\ FieldDone(f, Append(answers, GetUserInput(f, text)))
    /\ UNCHANGED <<key, current_row, vm_name, viewerVars>>

\* create_vm: the self.screen.getch() after the report (the key is not kept);
\* create_vm returns to main's loop.
WizardPause ==
    /\ UNCHANGED installed
    /\ pc = "wiz_pause"
    /\ \E lo \in ListOutcomes : TopLoop(<<>>, lo)
    /\ answers' = <<>>
    /\ typed' = ""
    /\ shown' = NothingShown
    /\ UNCHANGED <<key, current_row, vm_name, viewerVars>>

Next ==
    \/ Splash
    \/ TopMenuKey
    \/ ActionsKey
    \/ ViewerKey
    \/ WizardKey
    \/ WizardText
    \/ WizardPause

Spec == Init /\ [][Next]_vars

\* ------------------------------------------------------------------ claims
Exited == pc = "exited"
WizardCalls(made) == SelectSeq(made, LAMBDA c : c.by = "create_vm")
Verbs(made) == [i \in 1..Len(made) |-> made[i].cmd[2]]

\* C1: whenever a menu is the active screen (TopMenu with length(vms)+2
\* items, VMActionsMenu with 4 items), 0 <= selectedIndex < its number of
\* items.
C1_SelectionInRange ==
    /\ pc = "top" => (0 <= current_row /\ current_row < Len(vms) + 2)
    /\ pc = "actions" => (0 <= current_row /\ current_row < 4)

\* C2: the controller reaches Exited only through an explicit Quit at
\* TopMenu (the key q, or Enter on the last item), never through an
\* exception.
C2_ExitOnlyByQuit ==
    Exited =>
        /\ error = "none"
        /\ \/ key = KEY_Q
           \/ key = KEY_ENTER /\ current_row = Len(vms) + 1

\* C3: on every re-entry to TopMenu from VMActionsMenu or the wizard the
\* listing is re-fetched and selectedIndex is 0 when TopMenu next reads a key.
C3_ReentryResetsSelection ==
    [][(pc \in {"actions", "wiz_key", "wiz_pause"} /\ pc' = "top") =>
          /\ Len(calls') > 0
          /\ calls'[Len(calls')].by = "get_vms"
          /\ current_row' = 0]_vars

\* C4: q read at the start of any wizard field ends the wizard at once, and no
\* call was or is made in that run of the wizard, however many fields were
\* resolved before.
C4_QuitMakesNoCall ==
    /\ [](pc \in {"wiz_key", "wiz_text"} => calls = <<>>)
    /\ [][(pc = "wiz_key" /\ key' = KEY_Q) =>
            /\ pc' = "top"
            /\ WizardCalls(calls') = <<>>
            /\ calls' = <<calls'[1]>>
            /\ calls'[1].by = "get_vms"]_vars

\* C4 witness: q at the sixth field, after a typed name, an empty text for the
\* CPUs and three defaults.
C4_Witness ==
    /\ pc = "top"
    /\ key = KEY_Q
    /\ answers = <<"vm1", Defaults[2], Defaults[3], "", Defaults[5]>>
    /\ WizardCalls(calls) = <<>>

\* C5: submission makes its calls in the order createvm, modifyvm, createhd,
\* storagectl, storageattach, each at most once; every call but the last one
\* made reported success, all five are made only if the first four did, and
\* a call that reports non-success is the last.
C5_CallsInOrderUntilFirstFailure ==
    pc = "wiz_pause" =>
        LET made == WizardCalls(calls)
            order == <<"createvm", "modifyvm", "createhd", "storagectl",
                       "storageattach">>
        IN  /\ made = calls
            /\ Len(made) \in 1..5
            /\ Verbs(made) = SubSeq(order, 1, Len(made))
            /\ \A i \in 1..(Len(made) - 1) : made[i].rc = "ok"
            /\ Len(made) < 5 => made[Len(made)].rc # "ok"

\* C5 witness: the second call failed and was the last.
C5_Witness ==
    /\ pc = "wiz_pause"
    /\ Len(calls) = 2
    /\ calls[1].rc = "ok"
    /\ calls[2].rc = "fail"
    /\ calls[2].cmd[2] = "modifyvm"
\* What the calls made so far by a submission carry for each field of the
\* request, read off their argv: name and osType from createvm, memoryMB,
\* cpuCount and videoMemoryMB from modifyvm, diskMB from createhd.
Carried(made) ==
    [f \in 1..(IF Len(made) >= 3 THEN 6 ELSE IF Len(made) = 2 THEN 5 ELSE 2) |->
        CASE f = 1 -> made[1].cmd[4]
          [] f = 2 -> made[1].cmd[6]
          [] f = 3 -> made[2].cmd[5]
          [] f = 4 -> made[2].cmd[7]
          [] f = 5 -> made[2].cmd[9]
          [] f = 6 -> made[3].cmd[6]]

\* C6: a field resolved by the skip key takes exactly its default, a field
\* resolved by free text takes the typed text as it is (the empty one too), and
\* the calls of the submission carry these values; with the skip key at all
\* six fields the request is NewVM, Ubuntu_64, 1024, 2, 128, 10240.
C6_RequestCarriesResolvedFields ==
    /\ [][(pc = "wiz_key" /\ key' = KEY_SKIP) =>
            answers' = Append(answers, Defaults[Len(answers) + 1])]_vars
    /\ [][pc = "wiz_text" => answers' = Append(answers, typed')]_vars
    /\ [][(pc = "wiz_key" /\ key' = KEY_SKIP /\ answers = SubSeq(Defaults, 1, 5)) =>
            /\ pc' = "wiz_pause"
            /\ Carried(calls') =
                 SubSeq(<<"NewVM", "Ubuntu_64", "1024", "2", "128", "10240">>,
                        1, Len(Carried(calls')))]_vars
    /\ [](pc = "wiz_pause" =>
            /\ Len(answers) = 6
            /\ Carried(calls) = SubSeq(answers, 1, Len(Carried(calls)))
            /\ \A i \in 1..Len(calls) :
                 /\ calls[i].cmd[1] = "VBoxManage"
                 /\ i \in {2, 4, 5} => calls[i].cmd[3] = answers[1]
                 /\ i = 3 => calls[i].cmd[4] = answers[1] \o ".vdi"
                 /\ i = 5 => calls[i].cmd[13] = answers[1] \o ".vdi")

\* C6 witness: the skip key at all six fields, and all five calls made.
C6_Witness ==
    /\ pc = "wiz_pause"
    /\ key = KEY_SKIP
    /\ answers = Defaults
    /\ Len(calls) = 5
    /\ Carried(calls) = <<"NewVM", "Ubuntu_64", "1024", "2", "128", "10240">>

\* ceil(a / b) for b # 0
CeilDiv(a, b) == 0 - FloorDiv(0 - a, b)

\* C7: in the viewer totalPages = max(1, ceil(L / P)) for every number of
\* lines L >= 0 and page size P (a pageSize of ViewerState: P > 0), and
\* 0 <= currentPage < totalPages under any key sequence.
C7_PageInvariant ==
    (pc = "viewer" /\ page_size > 0) =>
        /\ total_pages = Max(1, CeilDiv(Len(info_lines), page_size))
        /\ 0 <= current_page
        /\ current_page < total_pages

\* C8: on entering the viewer pageSize = max(1, surfaceHeight - reserve), so
\* pageSize >= 1 for every terminal height, and the page computation never
\* divides by zero.
C8_PageSizeAtLeastOne ==
    /\ height > 0 =>
          /\ page_size = Max(1, height - HeaderFooterReserve)
          /\ page_size >= 1
    /\ error # "ZeroDivisionError"

\* The slices of pages 0 .. total-1, concatenated in order.
RECURSIVE PagesConcat(_, _, _)
PagesConcat(lines, size, total) ==
    IF total <= 0 THEN <<>>
    ELSE PagesConcat(lines, size, total - 1) \o PageLines(lines, total - 1, size)

\* C9: the slices lines[p*pageSize : p*pageSize + pageSize] of the pages
\* p = 0 .. totalPages-1, concatenated in order, are the lines exactly.
C9_PagesReproduceLines ==
    pc = "viewer" => PagesConcat(info_lines, page_size, total_pages) = info_lines

\* C10: Enter on the last item of TopMenu exits, for every number of listed
\* VMs; Enter on item 0 enters the wizard at its first field, and does not
\* exit.
C10_QuitAndCreate ==
    [][(pc = "top" /\ key' = KEY_ENTER) =>
          /\ current_row = Len(vms) + 1 => (pc' = "exited" /\ error' = "none")
          /\ current_row = 0 =>
                (pc' = "wiz_key" /\ answers' = <<>> /\ error' = "none")]_vars

\* C10 witness: Quit was activated with no VM listed.
C10_Witness ==
    /\ pc = "exited"
    /\ error = "none"
    /\ key = KEY_ENTER
    /\ vms = <<>>
    /\ current_row = 1

\* The calls of a handler that vm_actions made.
ActionCalls(made) == SelectSeq(made, LAMBDA c : c.by = "vm_actions")

\* C11: in the actions menu of VM v, Enter on "Delete VM" makes exactly one
\* "unregistervm v --delete" call and the top menu is the next screen; Enter
\* on "Start VM" makes exactly one "startvm v" call and the actions menu of v
\* stays, its selection unchanged.
C11_DeleteAndStart ==
    [][(pc = "actions" /\ key' = KEY_ENTER) =>
          /\ current_row = 2 =>
                /\ Len(ActionCalls(calls')) = 1
                /\ ActionCalls(calls')[1].cmd =
                       <<"VBoxManage", "unregistervm", vm_name, "--delete">>
                /\ pc' = "top"
          /\ current_row = 0 =>
                /\ Len(calls') = 1
                /\ ActionCalls(calls')[1].cmd = <<"VBoxManage", "startvm", vm_name>>
                /\ pc' = "actions"
                /\ vm_name' = vm_name
                /\ current_row' = current_row]_vars

\* C11 witness: "Delete VM" was activated on beta and the top menu is back.
C11_Witness ==
    /\ pc = "top"
    /\ key = KEY_ENTER
    /\ Len(calls) = 2
    /\ calls[1].cmd = <<"VBoxManage", "unregistervm", "beta", "--delete">>

\* C12: Enter on row i of the top menu, 1 <= i <= len(vms), opens the actions
\* menu of the VM on place i - 1 of the listing the menu was drawn from, and
\* every startvm, showvminfo and unregistervm call made from that actions
\* menu names that VM.
C12_BoundToListedVM ==
    [][/\ (pc = "top" /\ key' = KEY_ENTER /\ current_row >= 1
                      /\ current_row <= Len(vms)) =>
             (pc' = "actions" /\ vm_name' = vms[current_row] /\ vms' = vms)
       /\ (pc \in {"actions", "viewer"} /\ pc' \in {"actions", "viewer"}) =>
             vm_name' = vm_name
       /\ \A i \in 1..Len(calls') :
             calls'[i].by = "vm_actions" =>
                /\ pc \in {"actions", "viewer"}
                /\ calls'[i].cmd[2] \in {"startvm", "showvminfo", "unregistervm"}
                /\ calls'[i].cmd[3] = vm_name]_vars

\* C12 witness: row 2 of the listing alpha, beta was activated and the VM it
\* bound, beta, was then started.
C12_Witness ==
    /\ pc = "actions"
    /\ vms = <<"alpha", "beta">>
    /\ vm_name = "beta"
    /\ calls = <<Call("vm_actions", <<"VBoxManage", "startvm", "beta">>, "ok")>>

\* The calls that go through the one command runner of the program: startvm
\* and unregistervm of vm_actions and the steps of create_vm (showvminfo and
\* list vms are reads whose text is the result).
IsCommand(c) ==
    \/ c.by = "create_vm"
    \/ c.by = "vm_actions" /\ c.cmd[2] \in {"startvm", "unregistervm"}

\* C13: whenever a command has ended without success, the screen that issued
\* it shows an error and waits for one key before going back to its parent.
C13_FailuresReported ==
    \A i \in 1..Len(calls) :
        (IsCommand(calls[i]) /\ calls[i].rc # "ok") =>
            /\ pc = "wiz_pause"
            /\ shown.kind \in {"command_error", "os_error"}

\* C14: the actions menu opens on its row 0, and the top menu it returns to
\* is on row 0 as well: neither menu hands its selection to the other.
C14_SelectionNotShared ==
    [][/\ (pc = "top" /\ pc' = "actions") => current_row' = 0
       /\ (pc = "actions" /\ pc' = "top") => current_row' = 0]_vars

\* C15: when the submission of the wizard has ended, success is reported if
\* all five commands succeeded and the first failing command is reported
\* otherwise; the wizard then waits for one key, and whatever that key is,
\* the top menu is next with its selection as it was and the program running:
\* the key is not taken as a menu key.
C15_ReportThenOneKey ==
    [][/\ pc' = "wiz_pause" =>
             LET last == calls'[Len(calls')] IN
             /\ \A i \in 1..(Len(calls') - 1) : calls'[i].rc = "ok"
             /\ last.rc = "ok" =>
                   (Len(calls') = Len(Commands(answers')) /\ shown'.kind = "created")
             /\ last.rc = "fail" =>
                   (shown'.kind = "command_error" /\ shown'.cmd = last.cmd)
             /\ last.rc = "missing" => shown'.kind = "os_error"
       /\ pc = "wiz_pause" =>
             /\ pc' = "top"
             /\ current_row' = current_row
             /\ key' = key
             /\ error' = "none"]_vars

\* C15 witness: the third command of a submission failed and the wizard
\* waits for the key.
C15_Witness ==
    /\ pc = "wiz_pause"
    /\ Len(calls) = 3
    /\ calls[3].rc = "fail"
    /\ shown.kind = "command_error"
    /\ shown.cmd[2] = "createhd"

\* C16: in the viewer, q goes back to the actions menu of the same VM, which
\* reads its next key itself (q is not also taken as the q of that menu); Up
\* on page 0 and Down on the last page leave the page as it is; a key other
\* than q, Up and Down changes nothing.
C16_ViewerKeys ==
    [][pc = "viewer" =>
          /\ key' = KEY_Q =>
                (pc' = "actions" /\ vm_name' = vm_name /\ current_row' = current_row)
          /\ key' # KEY_Q => (pc' = "viewer" /\ vm_name' = vm_name)
          /\ (key' = KEY_UP /\ current_page = 0) => current_page' = current_page
          /\ (key' = KEY_DOWN /\ current_page = total_pages - 1) =>
                current_page' = current_page
          /\ key' \notin {KEY_Q, KEY_UP, KEY_DOWN} =>
                UNCHANGED <<viewerVars, current_row, vms, wizardVars, error>>]_vars

\* C16 witness: q was read in the viewer and the actions menu of alpha is
\* the screen again.
C16_Witness ==
    /\ pc = "actions"
    /\ key = KEY_Q
    /\ vm_name = "alpha"

\* C17: in the top menu and in the actions menu, with n items and the
\* selection on one of them, Up on row 0 and Down on row n - 1 leave the
\* selection where it is, Up and Down elsewhere move it by one, and from a
\* row that is neither first nor last Up then Down, and Down then Up, give
\* the row back.
C17_NoWraparound ==
    [][LET n == IF pc = "top" THEN Len(Options(vms)) ELSE Len(Actions(vm_name))
           row == current_row
       IN  (pc \in {"top", "actions"} /\ row >= 0 /\ row < n) =>
              /\ (key' = KEY_UP /\ row = 0) => current_row' = 0
              /\ (key' = KEY_DOWN /\ row = n - 1) => current_row' = n - 1
              /\ (key' = KEY_UP /\ row > 0) => current_row' = row - 1
              /\ (key' = KEY_DOWN /\ row < n - 1) => current_row' = row + 1
              /\ key' \in {KEY_UP, KEY_DOWN} => pc' = pc
              /\ (row > 0 /\ row < n - 1) =>
                    /\ RowAfter(KEY_DOWN, RowAfter(KEY_UP, row, n), n) = row
                    /\ RowAfter(KEY_UP, RowAfter(KEY_DOWN, row, n), n) = row]_vars

\* C17 witness: Down was read in the actions menu and its last row, 3, is
\* the selection.
C17_Witness ==
    /\ pc = "actions"
    /\ key = KEY_DOWN
    /\ current_row = Len(Actions(vm_name)) - 1
    /\ calls = <<>>

\* C18: a startvm, unregistervm or VM-creation call is made only by Enter in
\* the actions menu or by a wizard whose six fields all have their value. Up,
\* Down and the keys a screen does not know make no such call and leave the
\* screen and its VM as they are, in the top menu, the actions menu and the
\* viewer. Enter in the actions menu with a selection that is none of its
\* four rows makes no call and changes nothing.
C18_CallsOnlyOnActivation ==
    [][/\ (\E i \in 1..Len(calls') : IsCommand(calls'[i])) =>
             \/ pc = "actions" /\ key' = KEY_ENTER
             \/ pc \in {"wiz_key", "wiz_text"} /\ Len(answers') = NumFields
       /\ (\/ pc \in {"top", "actions"} /\ key' \notin {KEY_ENTER, KEY_Q}
           \/ pc = "viewer" /\ key' # KEY_Q) =>
             /\ pc' = pc
             /\ vm_name' = vm_name
             /\ error' = error
             /\ \A i \in 1..Len(calls') : ~IsCommand(calls'[i])
       /\ (pc = "actions" /\ key' = KEY_ENTER
              /\ current_row \notin 0..(Len(Actions(vm_name)) - 1)) =>
             /\ calls' = <<>>
             /\ UNCHANGED <<pc, current_row, vms, vm_name, viewerVars,
                            wizardVars, error>>]_vars

\* C18 witness: Enter in the actions menu with row 4 selected, which is no
\* row of that menu (the state on entry from top row 4 and after every Enter
\* read there).
C18_Witness ==
    /\ pc = "actions"
    /\ key = KEY_ENTER
    /\ current_row = Len(Actions(vm_name))
    /\ calls = <<>>

\* C19: the wizard is entered only with row 0 selected and never changes the
\* selection, whether it is aborted, succeeds or fails: the top menu reads
\* its next key with row 0 selected.
C19_WizardKeepsSelection ==
    [][LET Wizard == {"wiz_key", "wiz_text", "wiz_pause"} IN
       /\ pc' \in Wizard => current_row' = 0
       /\ pc \in Wizard => current_row' = current_row
       /\ (pc \in Wizard /\ pc' \notin Wizard) =>
             (pc' = "top" /\ current_row' = 0)]_vars

\* C19 witness: the wizard was aborted at its third field and the top menu
\* is back on row 0.
C19_Witness ==
    /\ pc = "top"
    /\ key = KEY_Q
    /\ Len(answers) = 2
    /\ current_row = 0

====
